---- MODULE Spec2Model ----
(***************************************************************************)
(* Model of cmd/csaf_aggregator/config.go: the aggregator configuration,   *)
(* its loading (loadConfig, setDefaults, check, checkProviders), the       *)
(* memoized key loader (cryptoKey) and the per-provider client factory     *)
(* (httpClient).                                                           *)
(*                                                                         *)
(* Go pointers (to bool, float64, crypto.Key, config) and error values     *)
(* are modelled as sequences of length at most one: Nil is the nil         *)
(* pointer / nil error, Ptr(v) a non-nil one holding v.                    *)
(***************************************************************************)
EXTENDS Integers, Sequences, FiniteSets, TLC

VARIABLES
    \* ---- cryptoKey: the config's key fields and the calling goroutines
    Key,        \* config.Key, the path of the armored key file
    key,        \* config.key, the cached *crypto.Key
    keyErr,     \* config.keyErr, the cached error
    keyMu,      \* config.keyMu: 0 when unlocked, else the goroutine holding it
    pc,         \* position of each goroutine inside cryptoKey
    f,          \* cryptoKey's local f of each goroutine: Nil or the opened file
    ncalls,     \* number of cryptoKey calls each goroutine has started
    loads,      \* number of os.Open calls made so far (load attempts started)
    returns,    \* the (key, error) pairs returned so far, in order of return
    \* ---- loadConfig
    path,       \* loadConfig's path argument / local
    file,       \* what toml.DecodeFile finds: Nil (undecodable) or Ptr(config)
    numCPU,     \* what runtime.NumCPU() reports
    cfg,        \* loadConfig's local cfg
    lpc,        \* position inside loadConfig
    loaded,     \* loadConfig's return value (*config, error), Nil before return
    \* ---- httpClient
    Rate,       \* config.Rate
    Insecure,   \* config.Insecure
    nlimiters,  \* number of rate.NewLimiter calls made so far
    built       \* the httpClient calls made so far: provider and returned client

keyVars    == <<Key, key, keyErr, keyMu, pc, f, ncalls, loads, returns>>
loadVars   == <<path, file, numCPU, cfg, lpc, loaded>>
clientVars == <<Rate, Insecure, nlimiters, built>>
vars       == <<keyVars, loadVars, clientVars>>

Nil == <<>>
Ptr(v) == <<v>>
Deref(p) == p[1]

(***************************************************************************)
(* Bounds of the model.                                                    *)
(***************************************************************************)
NumGoroutines == 3      \* goroutines calling cryptoKey concurrently
MaxCalls == 2           \* cryptoKey calls per goroutine
MaxProviders == 3       \* length of the enumerated provider lists
MaxClients == 2         \* httpClient calls in one run

Goroutines == 1..NumGoroutines

(***************************************************************************)
(* cryptoKey (config.go 58-74)                                             *)
(***************************************************************************)
KeyPaths == {"", "private.asc"}

\* sync.Mutex: Lock() proceeds only when the mutex is not held.
NeverHeld(mu) == TRUE
MutexFree(mu) == mu = 0

\* Line 64: a previous call already recorded a handle or an error.
HitOnKeyOnly(k, e) == k # Nil
CacheHit(k, e) == k # Nil \/ e # Nil

\* The values os.Open and crypto.NewKeyFromArmoredReader produce in the n-th
\* load attempt: every attempt allocates its own file, key and error objects.
OpenError(n)  == Ptr(<<"open", n>>)
ParseError(n) == Ptr(<<"parse", n>>)
NewKey(n)     == Ptr(<<"key", n>>)
NewFile(n)    == Ptr(<<"file", n>>)

KeyInit ==
    /\ Key \in KeyPaths
    /\ key = Nil
    /\ keyErr = Nil
    /\ keyMu = 0
    /\ pc = [t \in Goroutines |-> "idle"]
    /\ f = [t \in Goroutines |-> Nil]
    /\ ncalls = [t \in Goroutines |-> 0]
    /\ loads = 0
    /\ returns = <<>>

\* Lines 58-61: entry; without a key path the call returns (nil, nil) at once.
KeyEnter(t) ==
    /\ pc[t] = "idle"
    /\ ncalls[t] < MaxCalls
    /\ ncalls' = [ncalls EXCEPT ![t] = @ + 1]
    /\ IF Key = ""
       THEN /\ returns' = Append(returns, <<Nil, Nil>>)
            /\ pc' = pc
       ELSE /\ pc' = [pc EXCEPT ![t] = "lock"]
            /\ returns' = returns
    /\ UNCHANGED <<Key, key, keyErr, keyMu, f, loads>>
    /\ UNCHANGED <<loadVars, clientVars>>

\* Line 62: c.keyMu.Lock() (the deferred Unlock runs at each return below).
KeyLock(t) ==
    /\ pc[t] = "lock"
    /\ MutexFree(keyMu)
    /\ keyMu' = t
    /\ pc' = [pc EXCEPT ![t] = "cached"]
    /\ UNCHANGED <<Key, key, keyErr, f, ncalls, loads, returns>>
    /\ UNCHANGED <<loadVars, clientVars>>

\* Lines 64-66: return the recorded outcome, if any.
KeyCached(t) ==
    /\ pc[t] = "cached"
    /\ IF CacheHit(key, keyErr)
       THEN /\ returns' = Append(returns, <<key, keyErr>>)
            /\ keyMu' = 0
            /\ pc' = [pc EXCEPT ![t] = "idle"]
       ELSE /\ pc' = [pc EXCEPT ![t] = "open"]
            /\ UNCHANGED <<returns, keyMu>>
    /\ UNCHANGED <<Key, key, keyErr, f, ncalls, loads>>
    /\ UNCHANGED <<loadVars, clientVars>>

\* Lines 67-70: f, c.keyErr = os.Open(c.Key); on error return (nil, c.keyErr).
KeyOpen(t) ==
    /\ pc[t] = "open"
    /\ loads' = loads + 1
    /\ \E ok \in BOOLEAN :
         IF ok
         THEN /\ f' = [f EXCEPT ![t] = NewFile(loads')]
              /\ keyErr' = Nil
              /\ pc' = [pc EXCEPT ![t] = "parse"]
              /\ UNCHANGED <<returns, keyMu>>
         ELSE /\ keyErr' = OpenError(loads')
              /\ returns' = Append(returns, <<Nil, keyErr'>>)
              /\ keyMu' = 0
              /\ pc' = [pc EXCEPT ![t] = "idle"]
              /\ f' = f
    /\ UNCHANGED <<Key, key, ncalls>>
    /\ UNCHANGED <<loadVars, clientVars>>

\* Lines 71-73: c.key, c.keyErr = crypto.NewKeyFromArmoredReader(f); return
\* both; the deferred f.Close() and Unlock run.
KeyParse(t) ==
    /\ pc[t] = "parse"
    /\ \E ok \in BOOLEAN :
         /\ key' = IF ok THEN NewKey(loads) ELSE Nil
         /\ keyErr' = IF ok THEN Nil ELSE ParseError(loads)
    /\ returns' = Append(returns, <<key', keyErr'>>)
    /\ f' = [f EXCEPT ![t] = Nil]
    /\ keyMu' = 0
    /\ pc' = [pc EXCEPT ![t] = "idle"]
    /\ UNCHANGED <<Key, ncalls, loads>>
    /\ UNCHANGED <<loadVars, clientVars>>

(***************************************************************************)
(* loadConfig, setDefaults, check, checkProviders (config.go 103-176)      *)
(***************************************************************************)
defaultConfigPath == "aggregator.toml"
defaultWorkers    == 10
defaultFolder     == "/var/www"
defaultWeb        == "/var/www/html"
defaultDomain     == "https://example.com"

\* type provider (lines 34-39)
Provider(name, domain, rate, insecure) ==
    [Name |-> name, Domain |-> domain, Rate |-> rate, Insecure |-> insecure]

\* csaf.AggregatorInfo is represented by what its Validate method returns.
AggregatorValidate(a) == a

\* Lines 103-119, the loop from index i on with the names seen so far.
RECURSIVE CheckProvidersFrom(_, _, _)
CheckProvidersFrom(ps, i, already) ==
    IF i > Len(ps) THEN Nil
    ELSE IF ps[i].Name = "" THEN Ptr("no name given for provider")
    ELSE IF ps[i].Domain = "" THEN Ptr("no domain given for provider")
    ELSE IF ps[i].Name \in already
         THEN Ptr("provider '" \o ps[i].Name \o "' is configured more than once")
    ELSE CheckProvidersFrom(ps, i + 1, already \cup {ps[i].Name})

\* The same loop without line 116 (the name is never recorded).
RECURSIVE CheckProvidersForgetful(_, _)
CheckProvidersForgetful(ps, i) ==
    IF i > Len(ps) THEN Nil
    ELSE IF ps[i].Name = "" THEN Ptr("no name given for provider")
    ELSE IF ps[i].Domain = "" THEN Ptr("no domain given for provider")
    ELSE CheckProvidersForgetful(ps, i + 1)
CheckProvidersNoRecord(c) == CheckProvidersForgetful(c.Providers, 1)

\* The same loop without lines 110-112 (the domain is never looked at).
RECURSIVE CheckProvidersDomainless(_, _, _)
CheckProvidersDomainless(ps, i, already) ==
    IF i > Len(ps) THEN Nil
    ELSE IF ps[i].Name = "" THEN Ptr("no name given for provider")
    ELSE IF ps[i].Name \in already
         THEN Ptr("provider '" \o ps[i].Name \o "' is configured more than once")
    ELSE CheckProvidersDomainless(ps, i + 1, already \cup {ps[i].Name})
CheckProvidersNoDomain(c) == CheckProvidersDomainless(c.Providers, 1, {})

\* config.checkProviders (lines 103-119)
CheckProviders(c) == CheckProvidersFrom(c.Providers, 1, {})

\* Lines 134-144 with the clamp to the provider count left out.
ResolveWorkersUnclamped(w, ncpu, nproviders) ==
    IF w <= 0
    THEN (IF ncpu > defaultWorkers THEN defaultWorkers ELSE ncpu)
    ELSE w

\* Lines 134-144 with the default also applied to explicit values.
ResolveWorkersCapAll(w, ncpu, nproviders) ==
    LET d == IF ncpu > defaultWorkers THEN defaultWorkers ELSE ncpu
        b == IF w <= 0 \/ w > d THEN d ELSE w
    IN  IF b > nproviders THEN nproviders ELSE b

\* Lines 134-144: the Workers value setDefaults leaves.
ResolveWorkers(w, ncpu, nproviders) ==
    LET b == IF w <= 0
             THEN (IF ncpu > defaultWorkers THEN defaultWorkers ELSE ncpu)
             ELSE w
    IN  IF b > nproviders THEN nproviders ELSE b

\* config.setDefaults (lines 121-145)
SetDefaults(c, ncpu) ==
    [c EXCEPT !.Folder  = IF @ = "" THEN defaultFolder ELSE @,
              !.Web     = IF @ = "" THEN defaultWeb ELSE @,
              !.Domain  = IF @ = "" THEN defaultDomain ELSE @,
              !.Workers = ResolveWorkers(@, ncpu, Len(c.Providers))]

\* config.check with the provider-count test after the metadata validation.
CheckAggregatorFirst(c) ==
    IF AggregatorValidate(c.Aggregator) # Nil THEN AggregatorValidate(c.Aggregator)
    ELSE IF Len(c.Providers) = 0 THEN Ptr("no providers given in configuration")
    ELSE CheckProviders(c)

\* config.check (lines 147-157)
Check(c) ==
    IF Len(c.Providers) = 0 THEN Ptr("no providers given in configuration")
    ELSE IF AggregatorValidate(c.Aggregator) # Nil THEN AggregatorValidate(c.Aggregator)
    ELSE CheckProviders(c)

\* ---- the configurations a settings file can hold
Names   == {"", "a", "b"}
Domains == {"", "d"}
ShortProviders == {Provider(n, d, Nil, Nil) : n \in Names, d \in Domains}
ShortLists == UNION {[1..n -> ShortProviders] : n \in 0..MaxProviders}

RECURSIVE NameOf(_)
NameOf(i) == IF i = 0 THEN "" ELSE "p" \o NameOf(i - 1)
DistinctList(n) == [i \in 1..n |-> Provider(NameOf(i), "d", Nil, Nil)]
LongCounts == {3, 11, 50}
ProviderLists == ShortLists \cup {DistinctList(n) : n \in LongCounts}

WorkerValues == {-1, 0, 2, 12, 100}
CPUCounts    == {1, 4, 11, 20}
Locations    == {[Folder |-> "", Web |-> "", Domain |-> ""],
                 [Folder |-> "/srv/csaf", Web |-> "/srv/csaf/html",
                  Domain |-> "https://aggregator.test"]}
Aggregators  == {Nil, Ptr("aggregator: invalid metadata")}
Paths        == {"", "custom.toml"}

Configs ==
    {[Workers |-> w, Folder |-> l.Folder, Web |-> l.Web, Domain |-> l.Domain,
      Aggregator |-> a, Providers |-> ps] :
        w \in WorkerValues, l \in Locations, a \in Aggregators, ps \in ProviderLists}

LoadInit ==
    /\ path \in Paths
    /\ file \in {Nil} \cup {Ptr(c) : c \in Configs}
    /\ numCPU \in CPUCounts
    /\ cfg = Nil
    /\ lpc = "start"
    /\ loaded = Nil

\* Lines 160-167: default path, toml.DecodeFile into cfg, its error returned.
LoadDecode ==
    /\ lpc = "start"
    /\ path' = IF path = "" THEN defaultConfigPath ELSE path
    /\ IF file = Nil
       THEN /\ loaded' = <<Nil, Ptr("toml: cannot decode " \o path')>>
            /\ lpc' = "done"
            /\ cfg' = cfg
       ELSE /\ cfg' = Deref(file)
            /\ lpc' = "decoded"
            /\ loaded' = loaded
    /\ UNCHANGED <<file, numCPU>>
    /\ UNCHANGED <<keyVars, clientVars>>

\* Line 169: cfg.setDefaults()
LoadSetDefaults ==
    /\ lpc = "decoded"
    /\ cfg' = SetDefaults(cfg, numCPU)
    /\ lpc' = "defaulted"
    /\ UNCHANGED <<path, file, numCPU, loaded>>
    /\ UNCHANGED <<keyVars, clientVars>>

\* Lines 171-175: cfg.check(); its error, or &cfg, is returned.
LoadCheck ==
    /\ lpc = "defaulted"
    /\ loaded' = IF Check(cfg) # Nil THEN <<Nil, Check(cfg)>> ELSE <<Ptr(cfg), Nil>>
    /\ lpc' = "done"
    /\ UNCHANGED <<path, file, numCPU, cfg>>
    /\ UNCHANGED <<keyVars, clientVars>>

(***************************************************************************)
(* httpClient (config.go 76-101)                                           *)
(***************************************************************************)
limiterBurst == 1

\* Line 79 with the provider's explicit value taking precedence.
SkipVerifyLayered(p, cInsecure) ==
    IF p.Insecure # Nil THEN Deref(p.Insecure)
    ELSE cInsecure # Nil /\ Deref(cInsecure)

\* Line 79: the condition under which the transport skips verification.
SkipVerify(p, cInsecure) ==
    \/ p.Insecure # Nil /\ Deref(p.Insecure)
    \/ cInsecure # Nil /\ Deref(cInsecure)

\* Line 86: neither rate is set.
Unlimited(p, cRate) == p.Rate = Nil /\ cRate = Nil

\* Lines 90-96 with the two assignments in the other order.
EffectiveRateGlobalWins(p, cRate) ==
    LET r0 == 0
        r1 == IF p.Rate # Nil THEN Deref(p.Rate) ELSE r0
    IN  IF cRate # Nil THEN Deref(cRate) ELSE r1

\* Lines 90-96: r starts at zero, takes c.Rate, then p.Rate, where set.
EffectiveRate(p, cRate) ==
    LET r0 == 0
        r1 == IF cRate # Nil THEN Deref(cRate) ELSE r0
    IN  IF p.Rate # Nil THEN Deref(p.Rate) ELSE r1

\* rate.NewLimiter(limit, burst): the n-th limiter allocated.
NewLimiter(n, limit, burst) == [id |-> n, limit |-> limit, burst |-> burst]

\* Lines 78-85: the http.Client and its transport.
PlainClient(p, cInsecure) ==
    [type |-> "http.Client",
     Transport |-> IF SkipVerify(p, cInsecure)
                   THEN Ptr([InsecureSkipVerify |-> TRUE])
                   ELSE Nil]

\* config.httpClient (lines 76-101); n limiters were allocated before the call.
HttpClient(p, cRate, cInsecure, n) ==
    IF Unlimited(p, cRate)
    THEN PlainClient(p, cInsecure)
    ELSE [type |-> "limitingClient",
          client |-> PlainClient(p, cInsecure),
          limiter |-> NewLimiter(n + 1, EffectiveRate(p, cRate), limiterBurst)]

RateValues == {1, 2, 5}
OptRates   == {Nil} \cup {Ptr(r) : r \in RateValues}
OptBools   == {Nil, Ptr(TRUE), Ptr(FALSE)}
ClientProviders == {Provider("a", "d", r, i) : r \in OptRates, i \in OptBools}

ClientInit ==
    /\ Rate \in OptRates
    /\ Insecure \in OptBools
    /\ nlimiters = 0
    /\ built = <<>>

\* One call c.httpClient(p).
BuildClient ==
    /\ Len(built) < MaxClients
    /\ \E p \in ClientProviders :
         /\ built' = Append(built, [p |-> p,
                                     client |-> HttpClient(p, Rate, Insecure, nlimiters)])
         /\ nlimiters' = IF Unlimited(p, Rate) THEN nlimiters ELSE nlimiters + 1
    /\ UNCHANGED <<Rate, Insecure>>
    /\ UNCHANGED <<keyVars, loadVars>>

(***************************************************************************)
(* Specifications.  Each runs one part of the program; the variables of    *)
(* the other parts stay at rest.                                           *)
(***************************************************************************)
KeyRest ==
    /\ Key = "" /\ key = Nil /\ keyErr = Nil /\ keyMu = 0
    /\ pc = [t \in Goroutines |-> "idle"]
    /\ f = [t \in Goroutines |-> Nil]
    /\ ncalls = [t \in Goroutines |-> 0]
    /\ loads = 0 /\ returns = <<>>

LoadRest ==
    /\ path = "" /\ file = Nil /\ numCPU = 1 /\ cfg = Nil /\ lpc = "rest"
    /\ loaded = Nil

ClientRest ==
    /\ Rate = Nil /\ Insecure = Nil /\ nlimiters = 0 /\ built = <<>>

\* Concurrent cryptoKey calls on one config.
Init == KeyInit /\ LoadRest /\ ClientRest
Next ==
    \E t \in Goroutines :
        \/ KeyEnter(t)
        \/ KeyLock(t)
        \/ KeyCached(t)
        \/ KeyOpen(t)
        \/ KeyParse(t)
Spec == Init /\ [][Next]_vars

\* One loadConfig call.
LoadSpecInit == LoadInit /\ KeyRest /\ ClientRest
LoadNext ==
    \/ LoadDecode
    \/ LoadSetDefaults
    \/ LoadCheck
SpecLoad == LoadSpecInit /\ [][LoadNext]_vars

\* httpClient calls on one config.
ClientSpecInit == ClientInit /\ KeyRest /\ LoadRest
ClientNext == BuildClient
SpecClient == ClientSpecInit /\ [][ClientNext]_vars

(***************************************************************************)
(* Properties of cryptoKey (checked under Spec)                            *)
(***************************************************************************)
InLoadSection == {t \in Goroutines : pc[t] \in {"open", "parse"}}

\* C1: with a key path set, the load attempt (os.Open followed by the key
\* parsing) is started at most once over the life of the config, whatever
\* its outcome; no second caller is in or enters the load section.
C1_LoadAtMostOnce ==
    /\ loads + Cardinality({t \in Goroutines : pc[t] = "open"}) <= 1
    /\ Cardinality(InLoadSection) <= 1

\* Two calls have returned the handle of the only load while another caller
\* waits for the lock.
C1_Witness ==
    /\ Key # ""
    /\ loads = 1
    /\ key # Nil
    /\ Len(returns) >= 2
    /\ \E t \in Goroutines : pc[t] = "lock"

\* C2: with a key path set, every call returns what the first completed call
\* returned: the identical handle with a nil error, or the identical error
\* with no handle.
C2_SameOutcome ==
    Key # "" =>
        \A i \in 1..Len(returns) :
            /\ returns[i] = returns[1]
            /\ (returns[i][1] = Nil) # (returns[i][2] = Nil)

\* The first load failed and three calls have returned since.
C2_Witness ==
    /\ Key # ""
    /\ Len(returns) >= 3
    /\ returns[1][2] # Nil
    /\ loads = 1

(***************************************************************************)
(* Properties of loadConfig (checked under SpecLoad)                       *)
(***************************************************************************)
Min(a, b) == IF a < b THEN a ELSE b

Succeeded == lpc = "done" /\ loaded[1] # Nil
Failed    == lpc = "done" /\ loaded[1] = Nil /\ loaded[2] # Nil

\* C3: a configuration loadConfig returns has 1 <= Workers <= len(Providers).
C3_WorkersInRange ==
    Succeeded =>
        LET c == Deref(loaded[1])
        IN  1 <= c.Workers /\ c.Workers <= Len(c.Providers)

\* A load succeeded although the file asked for more workers than providers.
C3_Witness ==
    /\ Succeeded
    /\ Deref(file).Workers = 100
    /\ Len(Deref(file).Providers) = 3
    /\ Deref(loaded[1]).Workers = 3

\* C10: setDefaults leaves Workers = min(b, n), b = w if w > 0 and
\* b = min(P, 10) otherwise, n the number of providers.
C10_ResolvedWorkers ==
    lpc = "defaulted" =>
        LET w == Deref(file).Workers
            n == Len(cfg.Providers)
            b == IF w > 0 THEN w ELSE Min(numCPU, 10)
        IN  /\ cfg.Workers = Min(b, n)
            /\ (w <= 0 /\ numCPU = 4 /\ n = 2 => cfg.Workers = 2)
            /\ (w <= 0 /\ numCPU = 20 /\ n = 50 => cfg.Workers = 10)
            /\ (w = 100 /\ n = 3 => cfg.Workers = 3)
            /\ (w = 12 /\ n = 50 => cfg.Workers = 12)
            /\ (n = 0 => cfg.Workers = 0)

\* Twenty processors, fifty providers, no explicit worker count: ten workers.
C10_Witness ==
    /\ lpc = "defaulted"
    /\ Deref(file).Workers = 0
    /\ numCPU = 20
    /\ Len(cfg.Providers) = 50
    /\ cfg.Workers = 10

EmptyProviderList == file # Nil /\ Len(Deref(file).Providers) = 0

\* C4 as claimed: an empty provider list makes loadConfig fail with the
\* message "no providers given", whatever the aggregator metadata.
C4_AsClaimed ==
    (lpc = "done" /\ EmptyProviderList) =>
        loaded = <<Nil, Ptr("no providers given")>>

\* C4 as amended: an empty provider list makes loadConfig fail with the
\* message "no providers given in configuration", whatever the aggregator
\* metadata.
C4_NoProviders ==
    (lpc = "done" /\ EmptyProviderList) =>
        loaded = <<Nil, Ptr("no providers given in configuration")>>

\* A load of an empty provider list with invalid metadata has returned.
C4_Witness ==
    /\ lpc = "done"
    /\ EmptyProviderList
    /\ Deref(file).Aggregator # Nil

NoName   == Ptr("no name given for provider")
NoDomain == Ptr("no domain given for provider")
MoreThanOnce(name) == Ptr("provider '" \o name \o "' is configured more than once")

\* The list the file holds, when the file decodes and its metadata is valid.
ValidMetadata == file # Nil /\ Deref(file).Aggregator = Nil
GivenProviders == Deref(file).Providers

Repeats(ps, j) == \E i \in 1..(j - 1) : ps[i].Name = ps[j].Name
Complete(ps, k) == ps[k].Name # "" /\ ps[k].Domain # ""

\* C5 as claimed: two entries with the same non-empty name make loadConfig
\* fail with the error naming that name, whatever the rest of the list and
\* the domains.
C5_AsClaimed ==
    (lpc = "done" /\ ValidMetadata) =>
        LET ps == GivenProviders
            dups == {ps[j].Name : j \in {j \in 1..Len(ps) :
                                          ps[j].Name # "" /\ Repeats(ps, j)}}
        IN  dups # {} => \E name \in dups : loaded = <<Nil, MoreThanOnce(name)>>

\* C5 as amended: two entries with the same non-empty name make loadConfig
\* fail; the error names that name when the second occurrence is the first
\* entry to fail a check: every entry up to and including it has a name and
\* a domain and no entry before it repeats an earlier name.
C5_DuplicateName ==
    (lpc = "done" /\ ValidMetadata) =>
        LET ps == GivenProviders
        IN  \A j \in 1..Len(ps) :
                (ps[j].Name # "" /\ Repeats(ps, j)) =>
                    /\ Failed
                    /\ ( ( /\ \A k \in 1..j : Complete(ps, k)
                           /\ \A k \in 1..(j - 1) : ~Repeats(ps, k) )
                         => loaded[2] = MoreThanOnce(ps[j].Name) )

\* A three-entry list whose last entry repeats the name of the first, with a
\* different domain, was rejected.
C5_Witness ==
    /\ lpc = "done" /\ ValidMetadata
    /\ Len(GivenProviders) = 3
    /\ GivenProviders[1].Name = "b"
    /\ GivenProviders[2].Name = "a"
    /\ GivenProviders[3].Name = "b"
    /\ \A k \in 1..3 : GivenProviders[k].Domain = "d"
    /\ loaded[2] = MoreThanOnce("b")

\* C6 as claimed: an entry with an empty name or domain makes loadConfig fail
\* with the error for a missing field, whatever precedes the entry.
C6_AsClaimed ==
    (lpc = "done" /\ ValidMetadata) =>
        LET ps == GivenProviders
        IN  (\E k \in 1..Len(ps) : ~Complete(ps, k)) =>
                /\ loaded[1] = Nil
                /\ \/ loaded[2] = NoName /\ \E k \in 1..Len(ps) : ps[k].Name = ""
                   \/ loaded[2] = NoDomain /\ \E k \in 1..Len(ps) : ps[k].Domain = ""

\* C6 as amended: an entry with an empty name or domain makes loadConfig
\* fail; the error is the one for the first such entry (its name checked
\* before its domain) when no entry before it repeats an earlier name.
C6_MissingField ==
    (lpc = "done" /\ ValidMetadata) =>
        LET ps == GivenProviders
        IN  \A k \in 1..Len(ps) :
                ~Complete(ps, k) =>
                    /\ Failed
                    /\ ( ( /\ \A m \in 1..(k - 1) : Complete(ps, m)
                           /\ \A m \in 1..(k - 1) : ~Repeats(ps, m) )
                         => loaded[2] = IF ps[k].Name = "" THEN NoName ELSE NoDomain )

\* A list whose third entry lacks its domain, after two complete entries,
\* was rejected for the missing domain.
C6_Witness ==
    /\ lpc = "done" /\ ValidMetadata
    /\ Len(GivenProviders) = 3
    /\ Complete(GivenProviders, 1) /\ Complete(GivenProviders, 2)
    /\ GivenProviders[3].Name = "b" /\ GivenProviders[3].Domain = ""
    /\ loaded[2] = NoDomain

(***************************************************************************)
(* Properties of httpClient (checked under SpecClient)                     *)
(***************************************************************************)
IsPlain(cl)   == cl.type = "http.Client"
IsLimited(cl) == cl.type = "limitingClient"
HTTPOf(cl)    == IF IsLimited(cl) THEN cl.client ELSE cl
SkipsVerification(cl) ==
    /\ HTTPOf(cl).Transport # Nil
    /\ Deref(HTTPOf(cl).Transport).InsecureSkipVerify

\* C7: the client skips certificate verification exactly when the provider's
\* Insecure is set and true or the global Insecure is set and true.
C7_InsecureEitherFlag ==
    \A i \in 1..Len(built) :
        SkipsVerification(built[i].client)
            <=> (built[i].p.Insecure = Ptr(TRUE) \/ Insecure = Ptr(TRUE))

\* An explicit provider-level false under a global true got relaxed TLS.
C7_Witness ==
    /\ Insecure = Ptr(TRUE)
    /\ \E i \in 1..Len(built) :
         /\ built[i].p.Insecure = Ptr(FALSE)
         /\ SkipsVerification(built[i].client)

\* C9: the TLS policy is layered like the rate policy: the provider's
\* Insecure decides when present, else the global Insecure, else verify.
C9_LayeredTLS ==
    \A i \in 1..Len(built) :
        SkipsVerification(built[i].client)
            <=> IF built[i].p.Insecure # Nil
                THEN built[i].p.Insecure = Ptr(TRUE)
                ELSE Insecure = Ptr(TRUE)

\* C8: the plain client is returned exactly when neither rate is set;
\* otherwise a limiting client with burst 1 and the provider's rate if set,
\* else the global rate; no two calls share a limiter.
C8_RateLayering ==
    \A i \in 1..Len(built) :
        LET p  == built[i].p
            cl == built[i].client
        IN  /\ IsPlain(cl) <=> (p.Rate = Nil /\ Rate = Nil)
            /\ IsPlain(cl) \/ IsLimited(cl)
            /\ IsLimited(cl) =>
                 /\ cl.limiter.burst = 1
                 /\ cl.limiter.limit = IF p.Rate # Nil THEN Deref(p.Rate) ELSE Deref(Rate)
                 /\ \A j \in 1..Len(built) :
                      (j # i /\ IsLimited(built[j].client))
                          => built[j].client.limiter.id # cl.limiter.id

\* Under a global rate of 1, a provider with rate 5 got a limiter of rate 5
\* and a provider without a rate a second limiter of rate 1.
C8_Witness ==
    /\ Rate = Ptr(1)
    /\ Len(built) = 2
    /\ built[1].p.Rate = Ptr(5) /\ IsLimited(built[1].client)
    /\ built[1].client.limiter.limit = 5
    /\ built[2].p.Rate = Nil /\ IsLimited(built[2].client)
    /\ built[2].client.limiter.limit = 1
    /\ built[1].client.limiter.id # built[2].client.limiter.id

====
